---- MODULE Spec2Model ----
(***************************************************************************)
(* Model of the notebook Getting-higher-res-images.ipynb: get_json,        *)
(* get_highest_level and download_image.  One run of download_image(url)   *)
(* is a sequential process; every statement that talks to the network, to  *)
(* the image codec or to the file system is one step.                      *)
(*                                                                         *)
(* Strings the code inspects character by character (the input URL, the    *)
(* identifier, the file name) are sequences of one-character strings.      *)
(* An image is a function from rows py to columns px to pixel values;      *)
(* a pixel value <<src, sx, sy>> names the decoded image it was copied     *)
(* from and the position in that image, Blank is the fill of Image.new.    *)
(***************************************************************************)
EXTENDS Integers, Sequences, FiniteSets, TLC

VARIABLES
    url,         \* the argument of download_image
    pc,          \* position in download_image
    err,         \* the exception that ended the run ("" while none)
    data,        \* the parsed tiles.json
    level,       \* level returned by get_highest_level
    img,         \* the canvas created by Image.new
    index,       \* loop index of enumerate(level['tiles'])
    response,    \* response of the last tile request
    tile_img,    \* the last tile opened
    tile_w,      \* cell width, bound on the first iteration
    tile_h,      \* cell height, bound on the first iteration
    id,          \* identifier found in the url, bound inside the loop
    image_name,  \* name of the output file
    saved,       \* files written by img.save, in order
    requests,    \* history: every GET issued, in order
    pasted       \* history: every img.paste call, in order

vars == <<url, pc, err, data, level, img, index, response, tile_img, tile_w,
          tile_h, id, image_name, saved, requests, pasted>>

\* Largest number of levels in a served descriptor.
MaxLevels == 3

-----------------------------------------------------------------------------
(* Character strings *)

\* str.rstrip('/')
RECURSIVE RStrip(_)
RStrip(s) ==
    IF s # <<>> /\ s[Len(s)] = "/" THEN RStrip(SubSeq(s, 1, Len(s) - 1)) ELSE s

TilesJson == <<"/", "t", "i", "l", "e", "s", ".", "j", "s", "o", "n">>

\* '{}/{}'.format(url.rstrip('/'), 'tiles.json')
JsonUrl(u) == RStrip(u) \o TilesJson

ResourcePat == <<"r", "e", "s", "o", "u", "r", "c", "e", "/">>

\* Longest prefix of s without a newline: what (.*) matches.
RECURSIVE DotStar(_)
DotStar(s) ==
    IF s = <<>> \/ Head(s) = "\n" THEN <<>> ELSE <<Head(s)>> \o DotStar(Tail(s))

\* re.search(r'resource\/(.*)', u): the leftmost occurrence of "resource/",
\* group 1 is the rest of the line.  matched = FALSE stands for None.
ReSearch(u) ==
    LET n == Len(ResourcePat)
        hits == {i \in 1..(Len(u) - n + 1) : SubSeq(u, i, i + n - 1) = ResourcePat}
    IN  IF hits = {}
        THEN [matched |-> FALSE, group |-> <<>>]
        ELSE LET i == CHOOSE j \in hits : \A k \in hits : j <= k
             IN  [matched |-> TRUE, group |-> DotStar(SubSeq(u, i + n, Len(u)))]

Upper == <<"A", "B", "C", "X">>
Lower == <<"a", "b", "c", "x">>
AlNum == {"a", "b", "c", "x", "e", "h", "i", "m", "o", "r", "s", "t", "u",
          "0", "1", "2", "3", "4", "7"}

LowerChar(c) ==
    IF \E i \in 1..Len(Upper) : Upper[i] = c
    THEN Lower[CHOOSE i \in 1..Len(Upper) : Upper[i] = c]
    ELSE c

\* slugify on ASCII text: lower case, every run of other characters becomes
\* one "-", no "-" at either end.
RECURSIVE SlugRuns(_, _)
SlugRuns(s, prevDash) ==
    IF s = <<>> THEN <<>>
    ELSE LET c == LowerChar(Head(s))
         IN  IF c \in AlNum
             THEN <<c>> \o SlugRuns(Tail(s), FALSE)
             ELSE IF prevDash
                  THEN SlugRuns(Tail(s), TRUE)
                  ELSE <<"-">> \o SlugRuns(Tail(s), TRUE)

slugify(s) ==
    LET t == SlugRuns(s, TRUE)
    IN  IF t # <<>> /\ t[Len(t)] = "-" THEN SubSeq(t, 1, Len(t) - 1) ELSE t

\* 'slsa-{}.jpg'.format(slugify(id))
ImageName(ident) ==
    <<"s", "l", "s", "a", "-">> \o slugify(ident) \o <<".", "j", "p", "g">>

-----------------------------------------------------------------------------
(* Images *)

Blank == <<"blank", 0, 0>>

\* Image.new('RGB', (w, h)): row py, column px
NewImage(w, h) == [py \in 0..(h - 1) |-> [px \in 0..(w - 1) |-> Blank]]

\* The positions that a tile of size w x h put at box covers.
InBox(px, py, box, w, h) ==
    /\ box[1] <= px /\ px < box[1] + w
    /\ box[2] <= py /\ py < box[2] + h

\* A variant that enlarges the canvas to hold the whole tile.
PasteGrow(canvas, tile, box) ==
    LET rows == DOMAIN canvas \cup (box[2]..(box[2] + tile.h - 1))
        cols == UNION {DOMAIN canvas[py] : py \in DOMAIN canvas}
                    \cup (box[1]..(box[1] + tile.w - 1))
    IN  [py \in rows |->
            [px \in cols |->
                IF InBox(px, py, box, tile.w, tile.h)
                THEN <<tile.src, px - box[1], py - box[2]>>
                ELSE IF py \in DOMAIN canvas /\ px \in DOMAIN canvas[py]
                     THEN canvas[py][px]
                     ELSE Blank]]

\* canvas.paste(tile, box=(x, y)): the tile's pixels that fall on the canvas
\* are copied, the others are dropped; the canvas keeps its size.
Paste(canvas, tile, box) ==
    [py \in DOMAIN canvas |->
        [px \in DOMAIN canvas[py] |->
            IF InBox(px, py, box, tile.w, tile.h)
            THEN <<tile.src, px - box[1], py - box[2]>>
            ELSE canvas[py][px]]]

\* A variant that takes the cell size from every tile, not from the first.
CellSizeEveryTile(i, tile, w, h) == <<tile.w, tile.h>>

\* Cell size after opening the tile at loop index i.
CellSize(i, tile, w, h) == IF i = 0 THEN <<tile.w, tile.h>> ELSE <<w, h>>

\* A variant with the grid indices exchanged.
OffsetSwapped(tile, w, h) == <<tile.y * w, tile.x * h>>

\* x = tile['x'] * tile_w ; y = tile['y'] * tile_h
Offset(tile, w, h) == <<tile.x * w, tile.y * h>>

-----------------------------------------------------------------------------
(* The descriptor: levels and tiles *)

Tile(u, x, y) == [url |-> u, x |-> x, y |-> y]

NoLevel == [name |-> "", width |-> 0, height |-> 0, tiles |-> <<>>]

Unbound == [bound |-> FALSE, value |-> NoLevel]

\* A variant that binds highest_zoom to every level scanned, so that the
\* last level is returned when none is named 'z0'.
ScanLevelsFallback(levels) ==
    IF levels = <<>> THEN Unbound
    ELSE IF \E k \in 1..Len(levels) : levels[k].name = "z0"
         THEN [bound |-> TRUE,
               value |-> levels[CHOOSE k \in 1..Len(levels) :
                                   /\ levels[k].name = "z0"
                                   /\ \A j \in 1..(k - 1) : levels[j].name # "z0"]]
         ELSE [bound |-> TRUE, value |-> levels[Len(levels)]]

\* A variant that returns the first level whatever its name.
ScanLevelsFirst(levels) ==
    IF levels = <<>> THEN Unbound ELSE [bound |-> TRUE, value |-> Head(levels)]

\* The for loop of get_highest_level: highest_zoom is bound to the first level
\* named 'z0', and stays unbound when there is none.
RECURSIVE ScanLevels(_)
ScanLevels(levels) ==
    IF levels = <<>> THEN Unbound
    ELSE IF Head(levels).name = "z0"
         THEN [bound |-> TRUE, value |-> Head(levels)]
         ELSE ScanLevels(Tail(levels))

\* get_highest_level(data): the level returned, or the exception raised.
get_highest_level(d) ==
    IF ~d.hasLevels
    THEN [exc |-> "KeyError", value |-> NoLevel]
    ELSE LET r == ScanLevels(d.levels)
         IN  IF r.bound
             THEN [exc |-> "", value |-> r.value]
             ELSE [exc |-> "UnboundLocalError", value |-> NoLevel]

-----------------------------------------------------------------------------
(* The environment: the input URLs, the image server and its answers *)

UrlResource == <<"h", "/", "r", "e", "s", "o", "u", "r", "c", "e", "/", "B", "+", "4">>
UrlTrailing == <<"h", "/", "r", "e", "s", "o", "u", "r", "c", "e", "/", "X", "+", "1", "/">>
UrlOther    == <<"h", "/", "i", "t", "e", "m", "/", "7">>

Urls == {UrlResource, UrlTrailing, UrlOther}

Image(src, w, h) == [kind |-> "image", src |-> src, w |-> w, h |-> h]

\* Bytes that are no image: an HTML error page, a truncated file.
Garbage == [kind |-> "garbage", src |-> "", w |-> 0, h |-> 0]

NoImage == [kind |-> "none", src |-> "", w |-> 0, h |-> 0]

\* The image the server holds for a tile URL.
ServerImage(u) ==
    CASE u \in {"a/0_0", "a/1_0"} -> Image(u, 5, 5)
      [] u = "a/2_0" -> Image(u, 2, 5)
      [] u \in {"b/0_0", "b/1_0", "b/2_0"} -> Image(u, 2, 3)
      [] u = "e/0_0" -> Image(u, 3, 3)
      [] u = "e/1_0" -> Image(u, 2, 3)
      [] u = "e/0_1" -> Image(u, 3, 2)
      [] u \in {"p/0_0", "p/1_0", "p/0_1", "p/1_1"} -> Image(u, 50, 50)
      [] u \in {"q/0_0", "q/1_0", "q/2_0", "q/0_1", "q/1_1", "q/2_1"} -> Image(u, 50, 50)
      [] OTHER -> Image(u, 1, 1)

\* The picture some servers send along with an error status.
ErrImage == Image("err", 2, 2)

NoResponse == [outcome |-> "none", status |-> 0, body |-> NoImage]

\* What requests.get(tile['url']) can produce: an exception (no connection,
\* timeout), or a response of any status whose body is or is not an image.
TileResponses(u) ==
    {[outcome |-> "error", status |-> 0, body |-> NoImage],
     [outcome |-> "response", status |-> 200, body |-> ServerImage(u)],
     [outcome |-> "response", status |-> 200, body |-> Garbage],
     [outcome |-> "response", status |-> 404, body |-> Garbage],
     [outcome |-> "response", status |-> 404, body |-> ErrImage]}

Perms(s) ==
    {[i \in 1..Len(s) |-> s[f[i]]] :
        f \in {g \in [1..Len(s) -> 1..Len(s)] : \A i, j \in 1..Len(s) : g[i] = g[j] => i = j}}

Level(n, w, h, tiles) == [name |-> n, width |-> w, height |-> h, tiles |-> tiles]

\* A row of three tiles whose last column is narrower than the others.
EdgeTiles == <<Tile("a/0_0", 0, 0), Tile("a/1_0", 1, 0), Tile("a/2_0", 2, 0)>>
\* A row of three equal tiles that reach past the right and the lower edge.
ClipTiles == <<Tile("b/0_0", 0, 0), Tile("b/1_0", 1, 0), Tile("b/2_0", 2, 0)>>

\* Two rows: the tile of the last column is narrower, that of the last row lower.
CornerTiles == <<Tile("e/0_0", 0, 0), Tile("e/1_0", 1, 0), Tile("e/0_1", 0, 1)>>

\* 100 x 100 in four tiles of 50 x 50.
LevelSquare ==
    Level("z0", 100, 100, <<Tile("p/0_0", 0, 0), Tile("p/1_0", 1, 0),
                            Tile("p/0_1", 0, 1), Tile("p/1_1", 1, 1)>>)
\* 120 x 100 in six tiles of 50 x 50: column 2 reaches past the right edge.
LevelWide ==
    Level("z0", 120, 100, <<Tile("q/0_0", 0, 0), Tile("q/1_0", 1, 0), Tile("q/2_0", 2, 0),
                            Tile("q/0_1", 0, 1), Tile("q/1_1", 1, 1), Tile("q/2_1", 2, 1)>>)

\* The small 'z0' levels, their tiles in every order, and one without tiles.
SmallLevels ==
    {Level("z0", 12, 5, t) : t \in Perms(EdgeTiles)}
    \cup {Level("z0", 5, 2, t) : t \in Perms(ClipTiles)}
    \cup {Level("z0", 5, 5, t) : t \in Perms(CornerTiles)}
    \cup {Level("z0", 4, 4, <<>>)}

\* The levels of lower resolution.
OtherLevels ==
    {Level("z1", 3, 2, <<Tile("c/0_0", 0, 0)>>),
     Level("z2", 2, 1, <<Tile("d/0_0", 0, 0)>>)}

SeqsUpTo(S, n) == UNION {[1..k -> S] : k \in 0..n}

InsertAt(s, k, e) == SubSeq(s, 1, k) \o <<e>> \o SubSeq(s, k + 1, Len(s))

\* The level lists a descriptor can hold: up to MaxLevels levels, at most one
\* of them named 'z0', at any position.  The two large levels are served alone.
LevelLists ==
    SeqsUpTo(OtherLevels, MaxLevels)
    \cup UNION {{InsertAt(s, k, z) : k \in 0..Len(s), z \in SmallLevels} :
                    s \in SeqsUpTo(OtherLevels, MaxLevels - 1)}
    \cup {<<LevelSquare>>, <<LevelWide>>}

NoData == [outcome |-> "none", json |-> FALSE, hasLevels |-> FALSE, levels |-> <<>>]

\* What requests.get(json_url) can produce: an exception, a body that is not
\* JSON, a JSON object without 'levels', or a descriptor.
DescriptorResponses ==
    {[outcome |-> "error", json |-> FALSE, hasLevels |-> FALSE, levels |-> <<>>],
     [outcome |-> "response", json |-> FALSE, hasLevels |-> FALSE, levels |-> <<>>],
     [outcome |-> "response", json |-> TRUE, hasLevels |-> FALSE, levels |-> <<>>]}
    \cup {[outcome |-> "response", json |-> TRUE, hasLevels |-> TRUE, levels |-> l] :
             l \in LevelLists}

-----------------------------------------------------------------------------
(* download_image(url), one step per statement with an outside effect *)

UnboundId == <<"unbound">>
NoName == <<>>

Init ==
    /\ url \in Urls
    /\ pc = "get_json"
    /\ err = ""
    /\ data = NoData
    /\ level = NoLevel
    /\ img = NewImage(0, 0)
    /\ index = 0
    /\ response = NoResponse
    /\ tile_img = NoImage
    /\ tile_w = 0
    /\ tile_h = 0
    /\ id = UnboundId
    /\ image_name = NoName
    /\ saved = <<>>
    /\ requests = <<>>
    /\ pasted = <<>>

\* An uncaught exception ends the run.
Raise(e) == pc' = "failed" /\ err' = e

\* data = get_json(url)
GetJson ==
    /\ pc = "get_json"
    /\ \E r \in DescriptorResponses :
        /\ requests' = Append(requests, JsonUrl(url))
        /\ IF r.outcome = "error"
           THEN Raise("ConnectionError") /\ data' = data
           ELSE IF ~r.json
                THEN Raise("JSONDecodeError") /\ data' = data
                ELSE pc' = "get_highest_level" /\ err' = err /\ data' = r
    /\ UNCHANGED <<url, level, img, index, response, tile_img, tile_w, tile_h,
                   id, image_name, saved, pasted>>

\* level = get_highest_level(data)
GetHighestLevel ==
    /\ pc = "get_highest_level"
    /\ LET r == get_highest_level(data)
       IN  IF r.exc # ""
           THEN Raise(r.exc) /\ level' = level
           ELSE pc' = "new_image" /\ err' = err /\ level' = r.value
    /\ UNCHANGED <<url, data, img, index, response, tile_img, tile_w, tile_h,
                   id, image_name, saved, requests, pasted>>

\* img = Image.new('RGB', (w, h)), then the loop starts
CreateImage ==
    /\ pc = "new_image"
    /\ img' = NewImage(level.width, level.height)
    /\ index' = 0
    /\ pc' = "loop"
    /\ UNCHANGED <<url, err, data, level, response, tile_img, tile_w, tile_h,
                   id, image_name, saved, requests, pasted>>

\* response = requests.get(tile['url'])
FetchTile ==
    /\ pc = "loop"
    /\ index < Len(level.tiles)
    /\ LET tile == level.tiles[index + 1]
       IN  \E r \in TileResponses(tile.url) :
            /\ requests' = Append(requests, tile.url)
            /\ IF r.outcome = "error"
               THEN Raise("ConnectionError") /\ response' = response
               ELSE pc' = "open" /\ err' = err /\ response' = r
    /\ UNCHANGED <<url, data, level, img, index, tile_img, tile_w, tile_h,
                   id, image_name, saved, pasted>>

\* A variant that skips a tile it cannot decode.
OpenTileSkipping ==
    /\ pc = "open"
    /\ IF response.body.kind = "image"
       THEN pc' = "paste" /\ index' = index /\ tile_img' = response.body
       ELSE pc' = "loop" /\ index' = index + 1 /\ tile_img' = tile_img
    /\ UNCHANGED <<url, err, data, level, img, response, tile_w, tile_h,
                   id, image_name, saved, requests, pasted>>

\* tile_img = Image.open(BytesIO(response.content))
OpenTile ==
    /\ pc = "open"
    /\ IF response.body.kind = "image"
       THEN pc' = "paste" /\ err' = err /\ tile_img' = response.body
       ELSE Raise("UnidentifiedImageError") /\ tile_img' = tile_img
    /\ UNCHANGED <<url, data, level, img, index, response, tile_w, tile_h,
                   id, image_name, saved, requests, pasted>>

\* the rest of the loop body: the cell size, the offset, img.paste and the
\* search for the identifier
PasteTile ==
    /\ pc = "paste"
    /\ LET tile == level.tiles[index + 1]
           cell == CellSize(index, tile_img, tile_w, tile_h)
           box  == Offset(tile, cell[1], cell[2])
           m    == ReSearch(url)
       IN  /\ tile_w' = cell[1]
           /\ tile_h' = cell[2]
           /\ img' = Paste(img, tile_img, box)
           /\ pasted' = Append(pasted, [tile |-> tile, img |-> tile_img, box |-> box,
                                        status |-> response.status])
           /\ IF m.matched
              THEN /\ id' = m.group
                   /\ index' = index + 1
                   /\ pc' = "loop"
                   /\ err' = err
              ELSE /\ Raise("AttributeError")
                   /\ UNCHANGED <<id, index>>
    /\ UNCHANGED <<url, data, level, response, tile_img, image_name, saved, requests>>

\* A variant that searches the url for the identifier after the loop.
MakeImageNameSearching ==
    /\ pc = "loop"
    /\ index >= Len(level.tiles)
    /\ LET m == ReSearch(url)
       IN  IF m.matched
           THEN pc' = "save" /\ err' = err /\ image_name' = ImageName(m.group)
           ELSE Raise("AttributeError") /\ image_name' = image_name
    /\ UNCHANGED <<url, data, level, img, index, response, tile_img, tile_w, tile_h,
                   id, saved, requests, pasted>>

\* image_name = 'slsa-{}.jpg'.format(slugify(id)), after the loop
MakeImageName ==
    /\ pc = "loop"
    /\ index >= Len(level.tiles)
    /\ IF id = UnboundId
       THEN Raise("UnboundLocalError") /\ image_name' = image_name
       ELSE pc' = "save" /\ err' = err /\ image_name' = ImageName(id)
    /\ UNCHANGED <<url, data, level, img, index, response, tile_img, tile_w, tile_h,
                   id, saved, requests, pasted>>

\* img.save(image_name)
SaveImage ==
    /\ pc = "save"
    /\ saved' = Append(saved, [name |-> image_name, img |-> img])
    /\ pc' = "done"
    /\ UNCHANGED <<url, err, data, level, img, index, response, tile_img, tile_w,
                   tile_h, id, image_name, requests, pasted>>

Next ==
    \/ GetJson
    \/ GetHighestLevel
    \/ CreateImage
    \/ FetchTile
    \/ OpenTile
    \/ PasteTile
    \/ MakeImageName
    \/ SaveImage

Spec == Init /\ [][Next]_vars

\* The loop of download_image as a function: the canvas after the tiles
\* tiles[i + 1 ..] have been processed, images[u] being the image opened for
\* the tile of URL u.
RECURSIVE StitchFrom(_, _, _, _, _, _)
StitchFrom(canvas, tiles, images, i, w, h) ==
    IF i >= Len(tiles) THEN canvas
    ELSE LET tile == tiles[i + 1]
             cell == CellSize(i, images[tile.url], w, h)
             box  == Offset(tile, cell[1], cell[2])
         IN  StitchFrom(Paste(canvas, images[tile.url], box), tiles, images,
                        i + 1, cell[1], cell[2])

Stitch(lv, tiles, images) ==
    StitchFrom(NewImage(lv.width, lv.height), tiles, images, 0, 0, 0)

-----------------------------------------------------------------------------
(* Properties *)

HasZ0(levels) == \E k \in 1..Len(levels) : levels[k].name = "z0"

UniqueNames(levels) ==
    \A i, j \in 1..Len(levels) : levels[i].name = levels[j].name => i = j

\* get_highest_level has returned or raised.
Selected == pc \notin {"get_json", "get_highest_level"} /\ data.hasLevels

\* C2: when the descriptor has no level named "z0", selection ends in the
\* error of the unbound highest_zoom: no level of the descriptor is returned,
\* no tile is requested and nothing is pasted or saved.
C2_MissingLevel ==
    (Selected /\ ~HasZ0(data.levels)) =>
        /\ pc = "failed"
        /\ err = "UnboundLocalError"
        /\ level = NoLevel
        /\ requests = <<JsonUrl(url)>>
        /\ pasted = <<>>
        /\ saved = <<>>

C2_Witness ==
    /\ pc = "failed"
    /\ err = "UnboundLocalError"
    /\ data.hasLevels
    /\ Len(data.levels) >= 2
    /\ ~HasZ0(data.levels)

\* C3: when the levels have unique names and one of them is named "z0", at
\* whatever position, get_highest_level returns exactly that level.
C3_LevelSelection ==
    (Selected /\ UniqueNames(data.levels)) =>
        \A k \in 1..Len(data.levels) :
            data.levels[k].name = "z0" => level = data.levels[k]

C3_Witness ==
    /\ pc = "new_image"
    /\ UniqueNames(data.levels)
    /\ Len(data.levels) >= 3
    /\ data.levels[Len(data.levels)].name = "z0"
    /\ level = data.levels[Len(data.levels)]

\* C10: when the selected level has no tiles, the run ends in the error of
\* the unbound id after the descriptor request alone, and nothing is saved.
C10_EmptyLevel ==
    (level # NoLevel /\ level.tiles = <<>>) =>
        /\ saved = <<>>
        /\ pc \in {"new_image", "loop", "failed"}
        /\ pc = "failed" => (err = "UnboundLocalError" /\ requests = <<JsonUrl(url)>>)

C10_Witness ==
    /\ pc = "failed"
    /\ err = "UnboundLocalError"
    /\ level.name = "z0"
    /\ level.tiles = <<>>
    /\ ReSearch(url).matched

\* The transport reported failure for the response: a status outside 2xx.
Non2xx(r) == r.outcome = "response" /\ ~(200 <= r.status /\ r.status < 300)

\* Some tile of this run failed to fetch or to decode.
TileFailed ==
    \/ \E i \in 1..Len(pasted) : ~(200 <= pasted[i].status /\ pasted[i].status < 300)
    \/ Non2xx(response)
    \/ response.body.kind = "garbage"
    \/ pc = "failed" /\ err = "ConnectionError" /\ Len(requests) > 1

\* C1: once a tile has failed to fetch or to decode, the run is never
\* completed and no file is ever written.
C1_FatalTileFailure == TileFailed => (pc # "done" /\ saved = <<>>)

\* C7: the body of a tile response with a status outside 2xx is never
\* decoded and never pasted.
C7_FailedResponseNotUsed ==
    /\ pc = "paste" => ~Non2xx(response)
    /\ \A i \in 1..Len(pasted) : 200 <= pasted[i].status /\ pasted[i].status < 300

\* C4: a run that ends in the error of the missing resource/<identifier>
\* segment has issued no request at all.
C4_IdentifierCheckedFirst ==
    (pc = "failed" /\ err = "AttributeError") => requests = <<>>

\* The size of the first tile pasted: the cell size of the run.
FirstW == pasted[1].img.w
FirstH == pasted[1].img.h

\* The number of paste calls whose tile covers position <<px, py>>.
Writers(px, py) ==
    Cardinality({i \in 1..Len(pasted) :
                    InBox(px, py, pasted[i].box, pasted[i].img.w, pasted[i].img.h)})

\* Every tile received by this run is 50 x 50.
AllFifty == \A i \in 1..Len(pasted) : pasted[i].img.w = 50 /\ pasted[i].img.h = 50

\* C5: every tile is pasted at (x * cell_w, y * cell_h), the cell being the
\* size of the first tile processed; for the 100 x 100 level in four 50 x 50
\* tiles every position of the saved image is written by exactly one tile
\* and position (75, 75) holds pixel (25, 25) of the tile at grid (1, 1).
C5_TilePlacement ==
    /\ \A i \in 1..Len(pasted) :
           /\ pasted[i].tile = level.tiles[i]
           /\ pasted[i].box = <<pasted[i].tile.x * FirstW, pasted[i].tile.y * FirstH>>
    /\ pasted # <<>> /\ pc # "paste" => tile_w = FirstW /\ tile_h = FirstH
    /\ (pc = "done" /\ level = LevelSquare /\ AllFifty) =>
           /\ \A py \in 0..99 : \A px \in 0..99 : Writers(px, py) = 1
           /\ \E i \in 1..Len(pasted) :
                 /\ pasted[i].tile.x = 1 /\ pasted[i].tile.y = 1
                 /\ saved[1].img[75][75] = <<pasted[i].img.src, 25, 25>>

C5_Witness ==
    /\ pc = "done"
    /\ level = LevelSquare
    /\ AllFifty
    /\ saved[1].img[75][75] = <<"p/1_1", 25, 25>>

\* The canvas exists: Image.new has run.
Created == level # NoLevel /\ pc # "new_image"

\* C6: a paste that reaches past the canvas raises nothing and writes only
\* positions of the canvas: the canvas keeps the level's width x height, a
\* run never fails in a paste, every pixel of the canvas that comes from a
\* pasted image lies at its box plus its position in that image, and a tile
\* pasted at x = 100 on the 120 x 100 canvas leaves exactly its columns
\* 0..19 in columns 100..119.
C6_Clipping ==
    Created =>
        /\ DOMAIN img = 0..(level.height - 1)
        /\ \A py \in DOMAIN img : DOMAIN img[py] = 0..(level.width - 1)
        /\ (pc = "failed" /\ pasted # <<>> /\ Len(requests) = Len(pasted) + 1) =>
               err = "AttributeError"
        /\ \A py \in DOMAIN img : \A px \in DOMAIN img[py] :
               img[py][px] # Blank =>
                   \E i \in 1..Len(pasted) :
                       /\ pasted[i].img.src = img[py][px][1]
                       /\ px = pasted[i].box[1] + img[py][px][2]
                       /\ py = pasted[i].box[2] + img[py][px][3]
        /\ level = LevelWide =>
               \A i \in 1..Len(pasted) :
                   (pasted[i].box[1] = 100 /\ pasted[i].img.w = 50 /\ pasted[i].img.h = 50) =>
                       \A py \in pasted[i].box[2]..(pasted[i].box[2] + 49) :
                           \A px \in 100..119 :
                               img[py][px] = <<pasted[i].img.src, px - 100, py - pasted[i].box[2]>>

C6_Witness ==
    /\ pc = "done"
    /\ level = LevelWide
    /\ \E i \in 1..Len(pasted) :
          /\ pasted[i].tile.x = 2
          /\ pasted[i].box = <<100, 0>>
          /\ pasted[i].img = ServerImage("q/2_0")
    /\ saved[1].img[0][119] = <<"q/2_0", 19, 0>>

\* The requests and pastes made so far are those of a sequential pass over
\* the tiles in the order of the descriptor.
InOrder ==
    /\ requests # <<>> => requests[1] = JsonUrl(url)
    /\ Len(requests) <= 1 + Len(level.tiles)
    /\ \A i \in 2..Len(requests) : requests[i] = level.tiles[i - 1].url
    /\ Len(pasted) <= Len(level.tiles)
    /\ \A i \in 1..Len(pasted) : pasted[i].tile = level.tiles[i]
    /\ Len(pasted) + 1 <= Len(requests) \/ (pasted = <<>> /\ requests = <<>>)
    /\ Len(requests) <= Len(pasted) + 2
    /\ pc \in {"loop", "save", "done"} => Len(requests) = Len(pasted) + 1
    /\ pc \in {"save", "done"} => Len(pasted) = Len(level.tiles)
    /\ pc = "done" <=> saved # <<>>
    /\ Len(saved) <= 1

\* The steps of the linear state machine.
LinearStep ==
    /\ pc \notin {"failed", "done"}
    /\ <<pc, pc'>> \in {<<"get_json", "get_highest_level">>,
                         <<"get_highest_level", "new_image">>,
                         <<"new_image", "loop">>,
                         <<"loop", "open">>, <<"open", "paste">>, <<"paste", "loop">>,
                         <<"loop", "save">>, <<"save", "done">>}
           \cup {<<q, "failed">> : q \in {"get_json", "get_highest_level", "loop",
                                         "open", "paste"}}
    /\ level # NoLevel => level' = level
    /\ Len(requests') > Len(requests) => (pc \in {"get_json", "loop"} /\ pasted' = pasted)
    /\ Len(pasted') > Len(pasted) => (pc = "paste" /\ requests' = requests)

\* C8: a run is one descriptor request, then for each tile in descriptor
\* order one request and one paste before the next request, then the save
\* or a failure; a completed run has requested every tile exactly once, and
\* nothing happens after the run has failed or completed.
C8_LinearRun == []InOrder /\ [][LinearStep]_vars

C8_Witness ==
    /\ pc = "done"
    /\ Len(level.tiles) >= 3
    /\ Len(requests) = 1 + Len(level.tiles)
    /\ Len(pasted) = Len(level.tiles)

\* The tiles in row-major order of their grid indices.
RowMajor(tiles) ==
    CHOOSE s \in Perms(tiles) :
        \A i, j \in 1..Len(s) :
            i < j => (s[i].y < s[j].y \/ (s[i].y = s[j].y /\ s[i].x <= s[j].x))

\* The image this run opened for each tile URL.
Opened ==
    [u \in {pasted[i].tile.url : i \in 1..Len(pasted)} |->
        (CHOOSE e \in {pasted[i] : i \in 1..Len(pasted)} : e.tile.url = u).img]

Max(S) == CHOOSE m \in S : \A n \in S : n <= m

FullW == Max({pasted[i].img.w : i \in 1..Len(pasted)})
FullH == Max({pasted[i].img.h : i \in 1..Len(pasted)})
LastX == Max({pasted[i].tile.x : i \in 1..Len(pasted)})
LastY == Max({pasted[i].tile.y : i \in 1..Len(pasted)})

\* The tiles opened have one size, but for those of the last column, which
\* may be narrower, and those of the last row, which may be lower.
UniformButLast ==
    \A i \in 1..Len(pasted) :
        /\ pasted[i].img.w = FullW \/ pasted[i].tile.x = LastX
        /\ pasted[i].img.h = FullH \/ pasted[i].tile.y = LastY

DistinctCells ==
    \A i, j \in 1..Len(pasted) :
        (pasted[i].tile.x = pasted[j].tile.x /\ pasted[i].tile.y = pasted[j].tile.y) => i = j

\* The saved image is the one the same tiles give when processed row by row.
SameAsRowMajor == saved[1].img = Stitch(level, RowMajor(level.tiles), Opened)

\* C9 as stated: for a level whose tiles have one size but for the last
\* row and column, the saved image is the same in whatever order the tiles
\* are listed.
C9_AnyOrder ==
    (pc = "done" /\ DistinctCells /\ UniformButLast) => SameAsRowMajor

\* C9 amended: the same, for the orders whose first tile has the full size.
C9_AnyOrderFullTileFirst ==
    (pc = "done" /\ DistinctCells /\ UniformButLast
        /\ pasted[1].img.w = FullW /\ pasted[1].img.h = FullH) => SameAsRowMajor

C9_Witness ==
    /\ pc = "done"
    /\ level.tiles = <<Tile("e/0_0", 0, 0), Tile("e/0_1", 0, 1), Tile("e/1_0", 1, 0)>>
    /\ level.tiles # RowMajor(level.tiles)
    /\ \A i \in 1..Len(pasted) : pasted[i].img = ServerImage(pasted[i].tile.url)
    /\ DistinctCells /\ UniformButLast
    /\ pasted[1].img.w = FullW /\ pasted[1].img.h = FullH
    /\ saved[1].img[4][2] = <<"e/0_1", 2, 1>>
    /\ saved[1].img[2][4] = <<"e/1_0", 1, 2>>

====
